---- MODULE Spec2Model ----
(***************************************************************************)
(* The resumable concurrent block-range processor of scrapbtc:             *)
(* WorkerPool.ProcessBlockRange (the dispatcher), WorkerPool.worker and    *)
(* WorkerPool.processBlock (the per-height pipeline), the processing       *)
(* status ledger of package db, and the progress channel read by the UI.   *)
(*                                                                         *)
(* Every Source (rpc.Client) and Store (db.DB) call is one atomic step     *)
(* that either succeeds or returns an error; every channel operation is    *)
(* one step that is enabled only when Go would let it proceed.             *)
(***************************************************************************)
EXTENDS Integers, Sequences, FiniteSets, TLC

\* ---------------------------------------------------------------- bounds
MaxHeight == 1
MaxWorkers == 2
MaxTx == 1
MaxRuns == 2

\* ------------------------------------------------------ program constants
HeartbeatEvery == 100
DebugEvery == 1000

Heights == 0..MaxHeight
Workers == 1..MaxWorkers

VARIABLES
    ps,             \* processing_status table: height -> [state, err]
    blocks,         \* blocks table: heights whose block row is stored
    txs,            \* transactions table: <<height, index>> rows stored
    numWorkers,     \* wp.numWorkers
    progress,       \* wp.progress: the buffered events not yet received
    progressClosed, \* wp.progress has been closed
    dpc,            \* position of ProcessBlockRange
    fromHeight,     \* argument of the current call
    toHeight,       \* argument of the current call
    blockHeights,   \* the pending heights computed by the current call
    next,           \* index in blockHeights of the next height to enqueue
    jobs,           \* the jobs channel buffer
    jobsClosed,     \* the jobs channel has been closed
    ret,            \* return value of the current call
    cancelled,      \* ctx.Done() is closed
    wpc,            \* position of each worker goroutine
    wh,             \* height a worker is processing
    wi,             \* loop index i of the transaction loop
    wn,             \* len(transactions) of the fetched block
    werr,           \* the step whose error the worker is reporting
    outbox,         \* events a goroutine has still to send, in program order
    sentLog,        \* per height: events sent on wp.progress in this call
    callLog,        \* per height: Source/Store calls made in this call
    dequeued,       \* heights received from jobs by some worker in this call
    outcome,        \* per height: how processBlock returned in this call
    prevOutcome,    \* outcome of the previous call
    doneBefore,     \* heights with state completed when this call started
    psBefore,       \* the processing_status table when this call started
    cancelAt,       \* how many heights had been enqueued and dequeued, and
                    \* how many terminal events sent, when ctx was cancelled
    runNo,          \* number of ProcessBlockRange calls so far
    callsOnPool,    \* number of ProcessBlockRange calls on this WorkerPool
    panicked,       \* the process died of a runtime panic
    observer        \* position of the progress observer (RunProgressUI)

vars == <<ps, blocks, txs, numWorkers, progress, progressClosed, dpc,
          fromHeight, toHeight, blockHeights, next, jobs, jobsClosed, ret,
          cancelled, wpc, wh, wi, wn, werr, outbox, sentLog, callLog,
          dequeued, outcome, prevOutcome, doneBefore, psBefore, cancelAt,
          runNo, callsOnPool, panicked, observer>>

storeVars == <<ps, blocks, txs>>
dispVars == <<dpc, fromHeight, toHeight, blockHeights, next, jobs, jobsClosed, ret>>
workerVars == <<wpc, wh, wi, wn, werr>>
poolVars == <<numWorkers, progressClosed>>
logVars == <<sentLog, callLog, dequeued, outcome>>
histVars == <<prevOutcome, doneBefore, psBefore, cancelAt, runNo, callsOnPool>>

Dispatcher == 0
Active == 1..numWorkers

NoRow == [state |-> "none", err |-> ""]
CompletedRow == [state |-> "completed", err |-> ""]
NoCancel == [enq |-> -1, deq |-> -1, term |-> -1, spawned |-> FALSE]
NoOutcome == [h \in Heights |-> "none"]

\* The processing_status table. Its CREATE TABLE statement
\* (CreateProcessingStatusTable) is not among the sources: block_height is
\* taken to be its key, as the INSERT OR REPLACE statements need, so that the
\* table is a function from heights to rows, NoRow where there is none.
ErrorMessages == {"", "hash", "fetch", "insertBlock", "insertTx"}
ProcessingStatusTable ==
    [Heights -> [state : {"none", "processing", "completed", "failed"},
                 err : ErrorMessages]]

\* ProgressUpdate
Event(h, n, s, e, d) ==
    [height |-> h, txCount |-> n, status |-> s, err |-> e, debug |-> d]

\* Faulty variant: the buffer has one slot more.
ProgressCapPlusOne == numWorkers * 2 + 1

\* make(chan ProgressUpdate, numWorkers*2)
ProgressCap == numWorkers * 2

\* ------------------------------------------------------------ pure helpers
\* Faulty variant: the range query excludes its upper end (block_height < to).
GetProcessedBlocksOpenEnd(from, to) ==
    {h \in Heights : ps[h].state = "completed" /\ from <= h /\ h < to}

\* Faulty variant: the query takes every finished row, failed ones too.
GetProcessedBlocksFinished(from, to) ==
    {h \in Heights : ps[h].state \in {"completed", "failed"} /\ from <= h /\ h <= to}

\* db.GetProcessedBlocks: the heights of the rows with status = 'completed'
\* and block_height BETWEEN from AND to, as the key set of the map.
GetProcessedBlocks(from, to) ==
    {h \in Heights : ps[h].state = "completed" /\ from <= h /\ h <= to}

\* Faulty variant: the loop stops before toHeight (height < toHeight).
RECURSIVE BlockHeightsFromShort(_, _, _)
BlockHeightsFromShort(height, to, processedBlocks) ==
    IF height >= to THEN <<>>
    ELSE (IF height \notin processedBlocks THEN <<height>> ELSE <<>>)
         \o BlockHeightsFromShort(height + 1, to, processedBlocks)

\* The loop that builds blockHeights from the map.
RECURSIVE BlockHeightsFrom(_, _, _)
BlockHeightsFrom(height, to, processedBlocks) ==
    IF height > to THEN <<>>
    ELSE (IF height \notin processedBlocks THEN <<height>> ELSE <<>>)
         \o BlockHeightsFrom(height + 1, to, processedBlocks)

\* Faulty variant: the heartbeat test reads the 0-based index (i%100 == 0).
HeartbeatsOffByOne(h, i, n) ==
    (IF i % HeartbeatEvery = 0 \/ i = n - 1
       THEN <<Event(h, i + 1, "processing_transactions", "", "progress")>>
       ELSE <<>>)
    \o
    (IF (i + 1) % DebugEvery = 0
       THEN <<Event(h, i + 1, "processing_transactions", "", "detail")>>
       ELSE <<>>)

\* The events processBlock sends after transaction i (0-based) of n is stored.
Heartbeats(h, i, n) ==
    (IF (i + 1) % HeartbeatEvery = 0 \/ i = n - 1
       THEN <<Event(h, i + 1, "processing_transactions", "", "progress")>>
       ELSE <<>>)
    \o
    (IF (i + 1) % DebugEvery = 0
       THEN <<Event(h, i + 1, "processing_transactions", "", "detail")>>
       ELSE <<>>)

\* db.MarkBlockProcessing: INSERT OR REPLACE ... 'processing'
MarkBlockProcessing(h) == [ps EXCEPT ![h] = [state |-> "processing", err |-> ""]]

\* Faulty variant: the replacing row keeps the status 'processing'.
MarkBlockCompletedKeepsStatus(h) ==
    [ps EXCEPT ![h] = [state |-> "processing", err |-> ""]]

\* db.MarkBlockCompleted: SELECT the row's hash, INSERT OR REPLACE ... 'completed'
MarkBlockCompleted(h) == [ps EXCEPT ![h] = [state |-> "completed", err |-> ""]]

\* Faulty variant: the statement inserts the row when there is none.
MarkBlockFailedUpsert(h, msg) ==
    [ps EXCEPT ![h] = [state |-> "failed", err |-> msg]]

\* Faulty variant: the UPDATE sets the status and leaves error_message alone.
MarkBlockFailedNoMessage(h, msg) ==
    IF ps[h].state = "none" THEN ps
    ELSE [ps EXCEPT ![h] = [state |-> "failed", err |-> @.err]]

\* db.MarkBlockFailed: UPDATE ... SET status = 'failed' WHERE block_height = ?
MarkBlockFailed(h, msg) ==
    IF ps[h].state = "none" THEN ps
    ELSE [ps EXCEPT ![h] = [state |-> "failed", err |-> msg]]

Logged(h, call) == [callLog EXCEPT ![h] = Append(@, call)]

Count(h, s) == Cardinality({k \in 1..Len(sentLog[h]) : sentLog[h][k].status = s})
RECURSIVE SumOver(_, _)
SumOver(S, s) ==
    IF S = {} THEN 0
    ELSE LET h == CHOOSE x \in S : TRUE IN Count(h, s) + SumOver(S \ {h}, s)
Terminals == SumOver(Heights, "completed") + SumOver(Heights, "failed")
Range(q) == {q[k] : k \in 1..Len(q)}

\* ------------------------------------------------------------------- Init
\* The state after NewDB and NewWorkerPool. The database file outlives the
\* process: a height either has no row or was completed by an earlier process,
\* which stored its block and its MaxTx transactions.
Init ==
    /\ ps \in [Heights -> {NoRow, CompletedRow}]
    /\ blocks = {h \in Heights : ps[h] = CompletedRow}
    /\ txs = {<<h, i>> : h \in blocks, i \in 1..MaxTx}
    /\ numWorkers \in 0..MaxWorkers
    /\ progress = <<>>
    /\ progressClosed = FALSE
    /\ dpc = "idle"
    /\ fromHeight = 0
    /\ toHeight = 0
    /\ blockHeights = <<>>
    /\ next = 1
    /\ jobs = <<>>
    /\ jobsClosed = FALSE
    /\ ret = "none"
    /\ cancelled = FALSE
    /\ wpc = [w \in Workers |-> "off"]
    /\ wh = [w \in Workers |-> 0]
    /\ wi = [w \in Workers |-> 0]
    /\ wn = [w \in Workers |-> 0]
    /\ werr = [w \in Workers |-> ""]
    /\ outbox = [g \in {Dispatcher} \cup Workers |-> <<>>]
    /\ sentLog = [h \in Heights |-> <<>>]
    /\ callLog = [h \in Heights |-> <<>>]
    /\ dequeued = {}
    /\ outcome = NoOutcome
    /\ prevOutcome = NoOutcome
    /\ doneBefore = {}
    /\ psBefore = ps
    /\ cancelAt = NoCancel
    /\ runNo = 0
    /\ callsOnPool = 0
    /\ panicked = FALSE
    /\ observer = "waiting"

Idle == dpc \in {"idle", "returned"}
Running == ~panicked /\ ~Idle
AllOff == [w \in Workers |-> "off"]
Zero == [w \in Workers |-> 0]
NoOutbox == [g \in {Dispatcher} \cup Workers |-> <<>>]

\* --------------------------------------------------------- process start
\* runScraper on the same database file: NewDB, NewWorkerPool(..., workers),
\* and RunProgressUI on the new pool's channel.
NewWorkerPool(n) ==
    /\ Idle \/ panicked
    /\ callsOnPool >= 1
    /\ runNo < MaxRuns
    /\ numWorkers' = n
    /\ progress' = <<>>
    /\ progressClosed' = FALSE
    /\ panicked' = FALSE
    /\ callsOnPool' = 0
    /\ dpc' = "idle"
    /\ ret' = "none"
    /\ jobs' = <<>>
    /\ jobsClosed' = FALSE
    /\ next' = 1
    /\ cancelled' = FALSE
    /\ wpc' = AllOff
    /\ wh' = Zero /\ wi' = Zero /\ wn' = Zero
    /\ werr' = [w \in Workers |-> ""]
    /\ outbox' = NoOutbox
    /\ observer' = "waiting"
    /\ UNCHANGED <<storeVars, fromHeight, toHeight, blockHeights, logVars,
                   prevOutcome, doneBefore, psBefore, cancelAt, runNo>>

\* ------------------------------------------------------ ProcessBlockRange
\* Faulty variant: the error of the query is noted and the call goes on with
\* the map it got, which is empty.
PendingSetFromPartial(from, to, ok) ==
    IF ok
      THEN /\ blockHeights' = BlockHeightsFrom(from, to, GetProcessedBlocks(from, to))
           /\ dpc' = "computed"
           /\ ret' = "none"
      ELSE /\ blockHeights' = BlockHeightsFrom(from, to, {})
           /\ dpc' = "computed"
           /\ ret' = "setupErr"

\* processedBlocks, err := wp.db.GetProcessedBlocks(...): on error the call
\* returns it at once, else it builds blockHeights from the map.
PendingSet(from, to, ok) ==
    IF ok
      THEN /\ blockHeights' = BlockHeightsFrom(from, to, GetProcessedBlocks(from, to))
           /\ dpc' = "computed"
           /\ ret' = "none"
      ELSE /\ blockHeights' = <<>>
           /\ dpc' = "returned"
           /\ ret' = "setupErr"

\* Entry: db.GetProcessedBlocks, then the loop that builds blockHeights.
Start(from, to, ok) ==
    /\ ~panicked
    /\ Idle
    /\ from <= to
    /\ runNo' = runNo + 1
    /\ callsOnPool' = callsOnPool + 1
    /\ fromHeight' = from
    /\ toHeight' = to
    /\ cancelled' = FALSE
    /\ cancelAt' = NoCancel
    /\ prevOutcome' = outcome
    /\ doneBefore' = {h \in Heights : ps[h].state = "completed"}
    /\ psBefore' = ps
    /\ sentLog' = [h \in Heights |-> <<>>]
    /\ callLog' = [h \in Heights |-> <<>>]
    /\ dequeued' = {}
    /\ outcome' = NoOutcome
    /\ jobs' = <<>>
    /\ jobsClosed' = FALSE
    /\ next' = 1
    /\ wpc' = AllOff
    /\ PendingSet(from, to, ok)
    /\ UNCHANGED <<storeVars, poolVars, progress, wh, wi, wn, werr, outbox,
                   panicked, observer>>

\* len(blockHeights) == 0: the dispatcher is about to send the terminal event.
FastPath ==
    /\ Running
    /\ dpc = "computed"
    /\ Len(blockHeights) = 0
    /\ outbox' = [outbox EXCEPT ![Dispatcher] =
                    <<Event(0, 0, "All blocks already processed", "", "")>>]
    /\ dpc' = "fastSend"
    /\ UNCHANGED <<storeVars, poolVars, progress, fromHeight, toHeight,
                   blockHeights, next, jobs, jobsClosed, ret, cancelled,
                   workerVars, logVars, histVars, observer, panicked>>

\* close(wp.progress); return nil  (fast path)
FastClose ==
    /\ Running
    /\ dpc = "fastSend"
    /\ outbox[Dispatcher] = <<>>
    /\ progressClosed' = TRUE
    /\ ret' = "nil"
    /\ dpc' = "returned"
    /\ UNCHANGED <<storeVars, numWorkers, progress, fromHeight, toHeight,
                   blockHeights, next, jobs, jobsClosed, cancelled,
                   workerVars, outbox, logVars, histVars, observer, panicked>>

\* jobs := make(chan int64, len(blockHeights)); go wp.worker(...) numWorkers times
Spawn ==
    /\ Running
    /\ dpc = "computed"
    /\ Len(blockHeights) # 0
    /\ wpc' = [w \in Workers |-> IF w <= numWorkers THEN "pull" ELSE "off"]
    /\ dpc' = "enqueue"
    /\ UNCHANGED <<storeVars, poolVars, progress, fromHeight, toHeight,
                   blockHeights, next, jobs, jobsClosed, ret, cancelled,
                   wh, wi, wn, werr, outbox, logVars, histVars, observer, panicked>>

\* Faulty variant: the loop walks blockHeights from its end.
EnqueueFromEnd ==
    /\ Running
    /\ dpc = "enqueue"
    /\ next <= Len(blockHeights)
    /\ jobs' = Append(jobs, blockHeights[Len(blockHeights) - next + 1])
    /\ next' = next + 1
    /\ UNCHANGED <<storeVars, poolVars, progress, dpc, fromHeight, toHeight,
                   blockHeights, jobsClosed, ret, cancelled, workerVars,
                   outbox, logVars, histVars, observer, panicked>>

\* select case jobs <- height (never blocks: cap(jobs) = len(blockHeights))
Enqueue ==
    /\ Running
    /\ dpc = "enqueue"
    /\ next <= Len(blockHeights)
    /\ jobs' = Append(jobs, blockHeights[next])
    /\ next' = next + 1
    /\ UNCHANGED <<storeVars, poolVars, progress, dpc, fromHeight, toHeight,
                   blockHeights, jobsClosed, ret, cancelled, workerVars,
                   outbox, logVars, histVars, observer, panicked>>

\* select case <-ctx.Done(): close(jobs), then wg.Wait()
EnqueueCtxDone ==
    /\ Running
    /\ dpc = "enqueue"
    /\ next <= Len(blockHeights)
    /\ cancelled
    /\ jobsClosed' = TRUE
    /\ dpc' = "cancelWait"
    /\ UNCHANGED <<storeVars, poolVars, progress, fromHeight, toHeight,
                   blockHeights, next, jobs, ret, cancelled, workerVars,
                   outbox, logVars, histVars, observer, panicked>>

\* Faulty variant: the dispatcher waits without closing jobs.
CloseJobsForgotten ==
    /\ Running
    /\ dpc = "enqueue"
    /\ next > Len(blockHeights)
    /\ jobsClosed' = jobsClosed
    /\ dpc' = "wait"
    /\ UNCHANGED <<storeVars, poolVars, progress, fromHeight, toHeight,
                   blockHeights, next, jobs, ret, cancelled, workerVars,
                   outbox, logVars, histVars, observer, panicked>>

\* after the loop: close(jobs), then wg.Wait()
CloseJobs ==
    /\ Running
    /\ dpc = "enqueue"
    /\ next > Len(blockHeights)
    /\ jobsClosed' = TRUE
    /\ dpc' = "wait"
    /\ UNCHANGED <<storeVars, poolVars, progress, fromHeight, toHeight,
                   blockHeights, next, jobs, ret, cancelled, workerVars,
                   outbox, logVars, histVars, observer, panicked>>

\* Faulty variant: the barrier lets go as soon as one worker has returned.
OneWorkerDone == \E w \in Active : wpc[w] = "done"

\* wg.Wait(): every worker has called wg.Done
AllWorkersDone == \A w \in Active : wpc[w] = "done"

\* wg.Wait() returns; close(wp.progress); return nil
WaitCloseReturn ==
    /\ Running
    /\ dpc = "wait"
    /\ AllWorkersDone
    /\ ~progressClosed
    /\ progressClosed' = TRUE
    /\ ret' = "nil"
    /\ dpc' = "returned"
    /\ UNCHANGED <<storeVars, numWorkers, progress, fromHeight, toHeight,
                   blockHeights, next, jobs, jobsClosed, cancelled,
                   workerVars, outbox, logVars, histVars, observer, panicked>>

\* wg.Wait() returns; return ctx.Err()  (wp.progress is left open)
CancelReturn ==
    /\ Running
    /\ dpc = "cancelWait"
    /\ AllWorkersDone
    /\ ret' = "ctxErr"
    /\ dpc' = "returned"
    /\ UNCHANGED <<storeVars, poolVars, progress, fromHeight, toHeight,
                   blockHeights, next, jobs, jobsClosed, cancelled,
                   workerVars, outbox, logVars, histVars, observer, panicked>>

\* close(wp.progress) on a channel an earlier call closed: runtime panic. It
\* takes a second ProcessBlockRange call on one WorkerPool.
CloseOfClosed ==
    /\ Running
    /\ dpc = "wait"
    /\ AllWorkersDone
    /\ progressClosed
    /\ panicked' = TRUE
    /\ UNCHANGED <<storeVars, poolVars, progress, dispVars, cancelled,
                   workerVars, outbox, logVars, histVars, observer>>

\* The caller's context is cancelled while the call is running.
Cancel ==
    /\ Running
    /\ ~cancelled
    /\ cancelled' = TRUE
    /\ cancelAt' = [enq |-> next - 1, deq |-> Cardinality(dequeued),
                    term |-> Terminals,
                    spawned |-> dpc # "computed"]
    /\ UNCHANGED <<storeVars, poolVars, progress, dispVars, workerVars,
                   outbox, logVars, prevOutcome, doneBefore, psBefore, runNo,
                   callsOnPool, panicked, observer>>

\* ----------------------------------------------------------------- worker
\* Faulty variant: the receive leaves the height in the queue.
WorkerDequeuePeeks(w) ==
    /\ Running
    /\ w \in Active
    /\ wpc[w] = "pull"
    /\ outbox[w] = <<>>
    /\ Len(jobs) > 0
    /\ jobs' = jobs
    /\ wh' = [wh EXCEPT ![w] = Head(jobs)]
    /\ wpc' = [wpc EXCEPT ![w] = "hash"]
    /\ outbox' = [outbox EXCEPT ![w] = <<Event(Head(jobs), 0, "processing", "", "start")>>]
    /\ dequeued' = dequeued \cup {Head(jobs)}
    /\ UNCHANGED <<storeVars, poolVars, progress, dpc, fromHeight, toHeight,
                   blockHeights, next, jobsClosed, ret, cancelled, wi, wn,
                   werr, sentLog, callLog, outcome, histVars, observer, panicked>>

\* select case height, ok := <-jobs with ok: processBlock(ctx, height) starts
\* by sending the "processing" event.
WorkerDequeue(w) ==
    /\ Running
    /\ w \in Active
    /\ wpc[w] = "pull"
    /\ outbox[w] = <<>>
    /\ Len(jobs) > 0
    /\ jobs' = Tail(jobs)
    /\ wh' = [wh EXCEPT ![w] = Head(jobs)]
    /\ wpc' = [wpc EXCEPT ![w] = "hash"]
    /\ outbox' = [outbox EXCEPT ![w] = <<Event(Head(jobs), 0, "processing", "", "start")>>]
    /\ dequeued' = dequeued \cup {Head(jobs)}
    /\ UNCHANGED <<storeVars, poolVars, progress, dpc, fromHeight, toHeight,
                   blockHeights, next, jobsClosed, ret, cancelled, wi, wn,
                   werr, sentLog, callLog, outcome, histVars, observer, panicked>>

\* select case height, ok := <-jobs with !ok: return (wg.Done)
WorkerJobsClosed(w) ==
    /\ Running
    /\ w \in Active
    /\ wpc[w] = "pull"
    /\ outbox[w] = <<>>
    /\ Len(jobs) = 0
    /\ jobsClosed
    /\ wpc' = [wpc EXCEPT ![w] = "done"]
    /\ UNCHANGED <<storeVars, poolVars, progress, dispVars, cancelled, wh, wi,
                   wn, werr, outbox, logVars, histVars, observer, panicked>>

\* Faulty variant: cancellation is also observed inside a running pipeline, which
\* is abandoned.
WorkerCtxDoneInFlight(w) ==
    /\ Running
    /\ w \in Active
    /\ wpc[w] \notin {"off", "done"}
    /\ cancelled
    /\ wpc' = [wpc EXCEPT ![w] = "done"]
    /\ outbox' = [outbox EXCEPT ![w] = <<>>]
    /\ UNCHANGED <<storeVars, poolVars, progress, dispVars, cancelled, wh, wi,
                   wn, werr, logVars, histVars, observer, panicked>>

\* select case <-ctx.Done(): return (wg.Done)
WorkerCtxDone(w) ==
    /\ Running
    /\ w \in Active
    /\ wpc[w] = "pull"
    /\ outbox[w] = <<>>
    /\ cancelled
    /\ wpc' = [wpc EXCEPT ![w] = "done"]
    /\ UNCHANGED <<storeVars, poolVars, progress, dispVars, cancelled, wh, wi,
                   wn, werr, outbox, logVars, histVars, observer, panicked>>

\* processBlock returned err: the worker sends the "failed" event and loops.
\* Faulty variant: the worker drops the error of processBlock.
FailedEventsDropped(h, e) == <<>>

\* Faulty variant: the error is reported by processBlock and by the worker.
FailedEventsTwice(h, e) ==
    <<Event(h, 0, "failed", e, ""), Event(h, 0, "failed", e, "")>>

\* The "failed" event the worker sends when processBlock returns an error.
FailedEvents(h, e) == <<Event(h, 0, "failed", e, "")>>

\* Faulty variant: the worker returns when processBlock fails.
ReturnErrStops(w, e) ==
    /\ wpc' = [wpc EXCEPT ![w] = "done"]
    /\ outbox' = [outbox EXCEPT ![w] = FailedEvents(wh[w], e)]
    /\ outcome' = [outcome EXCEPT ![wh[w]] = "failed"]
    /\ wh' = [wh EXCEPT ![w] = 0]
    /\ wi' = [wi EXCEPT ![w] = 0]
    /\ wn' = [wn EXCEPT ![w] = 0]
    /\ werr' = [werr EXCEPT ![w] = ""]

\* processBlock returns err: the worker has the "failed" event to send and is
\* back at the head of its loop.
ReturnErr(w, e) ==
    /\ wpc' = [wpc EXCEPT ![w] = "pull"]
    /\ outbox' = [outbox EXCEPT ![w] = FailedEvents(wh[w], e)]
    /\ outcome' = [outcome EXCEPT ![wh[w]] = "failed"]
    /\ wh' = [wh EXCEPT ![w] = 0]
    /\ wi' = [wi EXCEPT ![w] = 0]
    /\ wn' = [wn EXCEPT ![w] = 0]
    /\ werr' = [werr EXCEPT ![w] = ""]

\* Faulty variant: a pipeline step is not taken once ctx is cancelled.
AtStepUntilCancelled(w, step) ==
    /\ Running
    /\ w \in Active
    /\ wpc[w] = step
    /\ outbox[w] = <<>>
    /\ ~cancelled

\* processBlock is at the given step: its earlier sends have completed.
AtStep(w, step) ==
    /\ Running
    /\ w \in Active
    /\ wpc[w] = step
    /\ outbox[w] = <<>>

\* hash, err := wp.rpcClient.GetBlockHashByHeight(height)
GetBlockHashByHeight(w, ok) ==
    /\ AtStep(w, "hash")
    /\ callLog' = Logged(wh[w], <<"GetBlockHashByHeight", 0, ok>>)
    /\ wpc' = [wpc EXCEPT ![w] = IF ok THEN "markProcessing" ELSE "markFailed"]
    /\ werr' = [werr EXCEPT ![w] = IF ok THEN "" ELSE "hash"]
    /\ UNCHANGED <<storeVars, poolVars, progress, dispVars, cancelled, wh, wi,
                   wn, outbox, sentLog, dequeued, outcome, histVars, observer, panicked>>

\* Faulty variant: a MarkBlockProcessing failure is handled like the other
\* failures, by a MarkBlockFailed call.
MarkProcessingThenMarkFailed(w, ok) ==
    /\ AtStep(w, "markProcessing")
    /\ callLog' = Logged(wh[w], <<"MarkBlockProcessing", 0, ok>>)
    /\ ps' = IF ok THEN MarkBlockProcessing(wh[w]) ELSE ps
    /\ wpc' = [wpc EXCEPT ![w] = IF ok THEN "fetch" ELSE "markFailed"]
    /\ werr' = [werr EXCEPT ![w] = IF ok THEN "" ELSE "hash"]
    /\ UNCHANGED <<blocks, txs, poolVars, progress, dispVars, cancelled,
                   wh, wi, wn, outbox, outcome, sentLog, dequeued, histVars, observer,
                   panicked>>

\* wp.db.MarkBlockProcessing(height, hash); on error processBlock returns it
\* without a MarkBlockFailed call.
MarkProcessing(w, ok) ==
    /\ AtStep(w, "markProcessing")
    /\ callLog' = Logged(wh[w], <<"MarkBlockProcessing", 0, ok>>)
    /\ IF ok
         THEN /\ ps' = MarkBlockProcessing(wh[w])
              /\ wpc' = [wpc EXCEPT ![w] = "fetch"]
              /\ UNCHANGED <<wh, wi, wn, werr, outbox, outcome>>
         ELSE /\ ps' = ps
              /\ ReturnErr(w, "markProcessing")
    /\ UNCHANGED <<blocks, txs, poolVars, progress, dispVars, cancelled,
                   sentLog, dequeued, histVars, observer, panicked>>

\* block, transactions, err := wp.rpcClient.GetBlockWithTransactions(hash)
GetBlockWithTransactions(w, ok, n) ==
    /\ AtStep(w, "fetch")
    /\ callLog' = Logged(wh[w], <<"GetBlockWithTransactions", IF ok THEN n ELSE 0, ok>>)
    /\ wpc' = [wpc EXCEPT ![w] = IF ok THEN "insertBlock" ELSE "markFailed"]
    /\ werr' = [werr EXCEPT ![w] = IF ok THEN "" ELSE "fetch"]
    /\ wn' = [wn EXCEPT ![w] = IF ok THEN n ELSE 0]
    /\ UNCHANGED <<storeVars, poolVars, progress, dispVars, cancelled, wh, wi,
                   outbox, sentLog, dequeued, outcome, histVars, observer, panicked>>

\* wp.db.InsertBlock(block): INSERT OR IGNORE
InsertBlock(w, ok) ==
    /\ AtStep(w, "insertBlock")
    /\ callLog' = Logged(wh[w], <<"InsertBlock", 0, ok>>)
    /\ blocks' = IF ok THEN blocks \cup {wh[w]} ELSE blocks
    /\ wpc' = [wpc EXCEPT ![w] = IF ~ok THEN "markFailed"
                                 ELSE IF wn[w] = 0 THEN "markCompleted"
                                 ELSE "insertTx"]
    /\ werr' = [werr EXCEPT ![w] = IF ok THEN "" ELSE "insertBlock"]
    /\ wi' = [wi EXCEPT ![w] = 0]
    /\ UNCHANGED <<ps, txs, poolVars, progress, dispVars, cancelled, wh, wn,
                   outbox, sentLog, dequeued, outcome, histVars, observer, panicked>>

\* Faulty variant: a failed transaction write is skipped and the loop goes on.
InsertTransactionSkipsFailure(w, ok) ==
    /\ AtStep(w, "insertTx")
    /\ callLog' = Logged(wh[w], <<"InsertTransaction", wi[w] + 1, ok>>)
    /\ txs' = IF ok THEN txs \cup {<<wh[w], wi[w] + 1>>} ELSE txs
    /\ wpc' = [wpc EXCEPT ![w] = IF wi[w] + 1 = wn[w] THEN "markCompleted"
                                 ELSE "insertTx"]
    /\ werr' = [werr EXCEPT ![w] = ""]
    /\ wi' = [wi EXCEPT ![w] = wi[w] + 1]
    /\ outbox' = [outbox EXCEPT ![w] = IF ok THEN Heartbeats(wh[w], wi[w], wn[w]) ELSE <<>>]
    /\ UNCHANGED <<ps, blocks, poolVars, progress, dispVars, cancelled, wh, wn,
                   sentLog, dequeued, outcome, histVars, observer, panicked>>

\* One iteration of the transaction loop: wp.db.InsertTransaction(tx)
\* (INSERT OR IGNORE), then the heartbeat sends of this iteration.
InsertTransaction(w, ok) ==
    /\ AtStep(w, "insertTx")
    /\ callLog' = Logged(wh[w], <<"InsertTransaction", wi[w] + 1, ok>>)
    /\ txs' = IF ok THEN txs \cup {<<wh[w], wi[w] + 1>>} ELSE txs
    /\ wpc' = [wpc EXCEPT ![w] = IF ~ok THEN "markFailed"
                                 ELSE IF wi[w] + 1 = wn[w] THEN "markCompleted"
                                 ELSE "insertTx"]
    /\ werr' = [werr EXCEPT ![w] = IF ok THEN "" ELSE "insertTx"]
    /\ wi' = [wi EXCEPT ![w] = IF ok THEN wi[w] + 1 ELSE wi[w]]
    /\ outbox' = [outbox EXCEPT ![w] = IF ok THEN Heartbeats(wh[w], wi[w], wn[w]) ELSE <<>>]
    /\ UNCHANGED <<ps, blocks, poolVars, progress, dispVars, cancelled, wh, wn,
                   sentLog, dequeued, outcome, histVars, observer, panicked>>

\* wp.db.MarkBlockFailed(height, err.Error()), its own error ignored, then
\* processBlock returns the error of the failed step.
MarkFailed(w, ok) ==
    /\ AtStep(w, "markFailed")
    /\ callLog' = Logged(wh[w], <<"MarkBlockFailed", 0, ok>>)
    /\ ps' = IF ok THEN MarkBlockFailed(wh[w], werr[w]) ELSE ps
    /\ ReturnErr(w, werr[w])
    /\ UNCHANGED <<blocks, txs, poolVars, progress, dispVars, cancelled,
                   sentLog, dequeued, histVars, observer, panicked>>

\* Faulty variant: a MarkBlockCompleted failure is handled like the other write
\* failures, by a MarkBlockFailed call.
MarkCompletedThenMarkFailed(w, ok) ==
    /\ AtStep(w, "markCompleted")
    /\ callLog' = Logged(wh[w], <<"MarkBlockCompleted", 0, ok>>)
    /\ IF ok
         THEN /\ ps' = MarkBlockCompleted(wh[w])
              /\ wpc' = [wpc EXCEPT ![w] = "pull"]
              /\ outbox' = [outbox EXCEPT ![w] =
                              <<Event(wh[w], wn[w], "completed", "", "done")>>]
              /\ wh' = [wh EXCEPT ![w] = 0]
              /\ wi' = [wi EXCEPT ![w] = 0]
              /\ wn' = [wn EXCEPT ![w] = 0]
              /\ outcome' = [outcome EXCEPT ![wh[w]] = "completed"]
              /\ werr' = werr
         ELSE /\ ps' = ps
              /\ wpc' = [wpc EXCEPT ![w] = "markFailed"]
              /\ werr' = [werr EXCEPT ![w] = "insertTx"]
              /\ UNCHANGED <<wh, wi, wn, outbox, outcome>>
    /\ UNCHANGED <<blocks, txs, poolVars, progress, dispVars, cancelled,
                   sentLog, dequeued, histVars, observer, panicked>>

\* wp.db.MarkBlockCompleted(height); on success the "completed" event is sent
\* and processBlock returns nil, on error processBlock returns it.
MarkCompleted(w, ok) ==
    /\ AtStep(w, "markCompleted")
    /\ callLog' = Logged(wh[w], <<"MarkBlockCompleted", 0, ok>>)
    /\ IF ok
         THEN /\ ps' = MarkBlockCompleted(wh[w])
              /\ wpc' = [wpc EXCEPT ![w] = "pull"]
              /\ outbox' = [outbox EXCEPT ![w] =
                              <<Event(wh[w], wn[w], "completed", "", "done")>>]
              /\ wh' = [wh EXCEPT ![w] = 0]
              /\ wi' = [wi EXCEPT ![w] = 0]
              /\ wn' = [wn EXCEPT ![w] = 0]
              /\ outcome' = [outcome EXCEPT ![wh[w]] = "completed"]
              /\ werr' = werr
         ELSE /\ ps' = ps
              /\ ReturnErr(w, "markCompleted")
    /\ UNCHANGED <<blocks, txs, poolVars, progress, dispVars, cancelled,
                   sentLog, dequeued, histVars, observer, panicked>>

\* ------------------------------------------------------- progress channel
\* The observer after it has received ev: it returns on the event of the fast
\* path and goes on waiting on any other.
AfterReceive(ev) ==
    IF ev.status = "All blocks already processed" THEN "returned" ELSE "waiting"

\* wp.progress <- ev completes: there is room in the buffer, or (capacity 0)
\* the receiver, waiting on the channel, takes the value directly.
Send(g) ==
    /\ Running
    /\ g = Dispatcher \/ g \in Active
    /\ outbox[g] # <<>>
    /\ ~progressClosed
    /\ \/ /\ ProgressCap = 0
          /\ observer = "waiting"
          /\ progress' = progress
          /\ observer' = AfterReceive(Head(outbox[g]))
       \/ /\ ProgressCap > 0
          /\ Len(progress) < ProgressCap
          /\ progress' = Append(progress, Head(outbox[g]))
          /\ observer' = observer
    /\ sentLog' = [sentLog EXCEPT ![Head(outbox[g]).height] = Append(@, Head(outbox[g]))]
    /\ outbox' = [outbox EXCEPT ![g] = Tail(@)]
    /\ UNCHANGED <<storeVars, poolVars, dispVars, cancelled, workerVars,
                   callLog, dequeued, outcome, histVars, panicked>>

\* wp.progress <- ev on a closed channel: runtime panic. It takes a second
\* ProcessBlockRange call on one WorkerPool, which Spec and SpecResume do not make.
SendOnClosed(g) ==
    /\ Running
    /\ g = Dispatcher \/ g \in Active
    /\ outbox[g] # <<>>
    /\ progressClosed
    /\ panicked' = TRUE
    /\ UNCHANGED <<storeVars, poolVars, progress, dispVars, cancelled,
                   workerVars, outbox, logVars, histVars, observer>>

\* The observer receives the next buffered event.
Receive ==
    /\ ~panicked
    /\ observer = "waiting"
    /\ Len(progress) > 0
    /\ progress' = Tail(progress)
    /\ observer' = AfterReceive(Head(progress))
    /\ UNCHANGED <<storeVars, poolVars, dispVars, cancelled, workerVars,
                   outbox, logVars, histVars, panicked>>

\* The observer's receive on the closed and drained channel: it returns.
ObserverClosed ==
    /\ ~panicked
    /\ observer = "waiting"
    /\ progress = <<>>
    /\ progressClosed
    /\ observer' = "returned"
    /\ UNCHANGED <<storeVars, poolVars, progress, dispVars, cancelled,
                   workerVars, outbox, logVars, histVars, panicked>>

\* The observer's select case <-ctx.Done(): it returns ctx.Err().
ObserverCtxDone ==
    /\ ~panicked
    /\ observer = "waiting"
    /\ cancelled
    /\ observer' = "returned"
    /\ UNCHANGED <<storeVars, poolVars, progress, dispVars, cancelled,
                   workerVars, outbox, logVars, histVars, panicked>>

\* ---------------------------------------------------------- specifications
\* One process as runScraper builds it, with a caller that may cancel ctx:
\* one WorkerPool and one ProcessBlockRange call on it.
Next ==
    \/ \E from \in Heights, to \in Heights, ok \in BOOLEAN :
          callsOnPool = 0 /\ Start(from, to, ok)
    \/ FastPath
    \/ FastClose
    \/ Spawn
    \/ Enqueue
    \/ EnqueueCtxDone
    \/ CloseJobs
    \/ WaitCloseReturn
    \/ CancelReturn
    \/ Cancel
    \/ \E w \in Workers : WorkerDequeue(w)
    \/ \E w \in Workers : WorkerJobsClosed(w)
    \/ \E w \in Workers : WorkerCtxDone(w)
    \/ \E w \in Workers, ok \in BOOLEAN : GetBlockHashByHeight(w, ok)
    \/ \E w \in Workers, ok \in BOOLEAN : MarkProcessing(w, ok)
    \/ \E w \in Workers, ok \in BOOLEAN, n \in 0..MaxTx : GetBlockWithTransactions(w, ok, n)
    \/ \E w \in Workers, ok \in BOOLEAN : InsertBlock(w, ok)
    \/ \E w \in Workers, ok \in BOOLEAN : InsertTransaction(w, ok)
    \/ \E w \in Workers, ok \in BOOLEAN : MarkFailed(w, ok)
    \/ \E w \in Workers, ok \in BOOLEAN : MarkCompleted(w, ok)
    \/ \E g \in {Dispatcher} \cup Workers : Send(g)
    \/ Receive

Spec == Init /\ [][Next]_vars

\* The program run again and again on one database file, as runScraper runs
\* it: ctx is context.Background() and is never cancelled, every process
\* builds a new WorkerPool and calls ProcessBlockRange once. The first process
\* finds an empty database; the pool has one worker.
InitResume ==
    /\ Init
    /\ ps = [h \in Heights |-> NoRow]
    /\ numWorkers = 1

NextResume ==
    \/ NewWorkerPool(1)
    \/ \E from \in Heights, to \in Heights, ok \in BOOLEAN :
          callsOnPool = 0 /\ runNo < MaxRuns /\ Start(from, to, ok)
    \/ FastPath
    \/ FastClose
    \/ Spawn
    \/ Enqueue
    \/ CloseJobs
    \/ WaitCloseReturn
    \/ \E w \in Workers : WorkerDequeue(w)
    \/ \E w \in Workers : WorkerJobsClosed(w)
    \/ \E w \in Workers, ok \in BOOLEAN : GetBlockHashByHeight(w, ok)
    \/ \E w \in Workers, ok \in BOOLEAN : MarkProcessing(w, ok)
    \/ \E w \in Workers, ok \in BOOLEAN, n \in 0..MaxTx : GetBlockWithTransactions(w, ok, n)
    \/ \E w \in Workers, ok \in BOOLEAN : InsertBlock(w, ok)
    \/ \E w \in Workers, ok \in BOOLEAN : InsertTransaction(w, ok)
    \/ \E w \in Workers, ok \in BOOLEAN : MarkFailed(w, ok)
    \/ \E w \in Workers, ok \in BOOLEAN : MarkCompleted(w, ok)
    \/ \E g \in {Dispatcher} \cup Workers : Send(g)
    \/ Receive

SpecResume == InitResume /\ [][NextResume]_vars

\* One worker on one height of an empty database, the block having one of the
\* sizes at which the heartbeat tests of the transaction loop change their
\* answer: none, one, around HeartbeatEvery, between two multiples of it, at
\* and after DebugEvery, and two times DebugEvery.
BlockSizes ==
    {0, 1, HeartbeatEvery - 1, HeartbeatEvery, HeartbeatEvery + 1,
     2 * HeartbeatEvery + HeartbeatEvery \div 2,
     DebugEvery, DebugEvery + 1, 2 * DebugEvery}

InitHeartbeat ==
    /\ Init
    /\ ps = [h \in Heights |-> NoRow]
    /\ numWorkers = 1

NextHeartbeat ==
    \/ \E h \in Heights, ok \in BOOLEAN : callsOnPool = 0 /\ Start(h, h, ok)
    \/ Spawn
    \/ Enqueue
    \/ CloseJobs
    \/ WaitCloseReturn
    \/ \E w \in Workers : WorkerDequeue(w)
    \/ \E w \in Workers : WorkerJobsClosed(w)
    \/ \E w \in Workers, ok \in BOOLEAN : GetBlockHashByHeight(w, ok)
    \/ \E w \in Workers, ok \in BOOLEAN : MarkProcessing(w, ok)
    \/ \E w \in Workers, ok \in BOOLEAN, n \in BlockSizes : GetBlockWithTransactions(w, ok, n)
    \/ \E w \in Workers, ok \in BOOLEAN : InsertBlock(w, ok)
    \/ \E w \in Workers, ok \in BOOLEAN : InsertTransaction(w, ok)
    \/ \E w \in Workers, ok \in BOOLEAN : MarkFailed(w, ok)
    \/ \E w \in Workers, ok \in BOOLEAN : MarkCompleted(w, ok)
    \/ \E g \in {Dispatcher} \cup Workers : Send(g)
    \/ Receive

SpecHeartbeat == InitHeartbeat /\ [][NextHeartbeat]_vars

\* ================================================================= claims
Returned == ~panicked /\ dpc = "returned"
TerminalsOf(h) == Count(h, "completed") + Count(h, "failed")
PendingNow == {h \in fromHeight..toHeight : ps[h].state # "completed"}
Ascending(q) == \A i \in 1..Len(q) : \A j \in 1..Len(q) : i < j => q[i] < q[j]
NoWorkerStarted == \A w \in Workers : wpc[w] = "off"
NoCallsMade == \A h \in Heights : callLog[h] = <<>>
AllSent == UNION {Range(sentLog[h]) : h \in Heights}
RangeAllDone == \A h \in fromHeight..toHeight : h \in doneBefore

\* C1 (as stated): a call with poolSize >= 1 whose ctx was not cancelled before
\* the workers were started has, when it returns, sent as many completed plus
\* failed events as the pending set has heights, also when ctx was cancelled
\* later, while the workers were running.
C1_Original ==
    (/\ Returned
     /\ ret # "setupErr"
     /\ numWorkers >= 1
     /\ cancelled => cancelAt.spawned)
    => Terminals = Len(blockHeights)

\* C1 (amended): a call with poolSize >= 1 whose ctx is never cancelled has,
\* when it returns nil, sent exactly len(blockHeights) completed plus failed
\* events.
C1_CompletionAccounting ==
    (Returned /\ ret = "nil" /\ numWorkers >= 1 /\ ~cancelled)
    => Terminals = Len(blockHeights)

C1_Witness ==
    /\ Returned /\ ret = "nil" /\ ~cancelled
    /\ numWorkers = 2
    /\ Len(blockHeights) = 2
    /\ Count(0, "completed") = 1
    /\ Count(1, "failed") = 1

\* C2: wp.progress is closed only when every worker has returned, and once it
\* is closed no goroutine has an event left to send and nothing more is sent.
C2_CloseAfterWorkers ==
    /\ [](progressClosed =>
            /\ \A w \in Workers : wpc[w] \in {"off", "done"}
            /\ \A g \in {Dispatcher} \cup Workers : outbox[g] = <<>>)
    /\ [][progressClosed => sentLog' = sentLog]_vars

C2_Witness ==
    /\ progressClosed
    /\ numWorkers = 2
    /\ \A w \in Active : wpc[w] = "done"
    /\ Terminals = 2

\* C3: when ProcessBlockRange returns after having started its workers, with nil
\* or with the cancellation error, wp.progress is closed.
C3_ClosedOnReturn ==
    (Returned /\ ret \in {"nil", "ctxErr"} /\ numWorkers >= 1 /\ Len(blockHeights) > 0)
    => progressClosed

\* C4: when every height of [from, to] is completed at the start of the call,
\* no worker is started, no Source or Store call is made, the only event sent
\* is one "All blocks already processed", and the call returns nil with
\* wp.progress closed.
C4_EmptyFastPath ==
    (~Idle \/ Returned) /\ ret # "setupErr" /\ callsOnPool = 1 /\ RangeAllDone
    => /\ NoWorkerStarted
       /\ NoCallsMade
       /\ \A e \in AllSent : e.status = "All blocks already processed"
       /\ Len(sentLog[0]) <= 1
       /\ \A h \in Heights : h # 0 => sentLog[h] = <<>>
       /\ Returned => /\ ret = "nil"
                      /\ progressClosed
                      /\ Len(sentLog[0]) = 1

C4_Witness ==
    /\ Returned /\ ret = "nil" /\ RangeAllDone
    /\ toHeight > fromHeight
    /\ progressClosed
    /\ Len(sentLog[0]) = 1

\* C5: the pending set computed by a call is the ascending sequence of
\* exactly the heights of [from, to] whose status is not completed: heights
\* with no row, failed or processing are pending, completed ones never are.
C5_UnitResolver ==
    (~panicked /\ dpc = "computed")
    => /\ Range(blockHeights) = PendingNow
       /\ Ascending(blockHeights)

C5_Witness ==
    /\ dpc = "computed"
    /\ fromHeight = 0 /\ toHeight = 1
    /\ ps[0].state = "completed"
    /\ ps[1].state \in {"failed", "processing"}
    /\ blockHeights = <<1>>

\* C6: a height whose pipeline returned an error in a call is not completed
\* in the Store while and after that call runs, and the next call over a
\* range that contains it has it in its pending set.
C6_FailureRetryable ==
    /\ \A h \in Heights : outcome[h] = "failed" => ps[h].state # "completed"
    /\ (~panicked /\ ~Idle /\ ret # "setupErr") =>
          \A h \in fromHeight..toHeight :
              prevOutcome[h] = "failed" => h \in Range(blockHeights)

C6_Witness ==
    /\ runNo = 2
    /\ dpc = "computed"
    /\ prevOutcome[0] = "failed"
    /\ ps[0].state = "processing"
    /\ 0 \in Range(blockHeights)

\* C7: a call that follows a call which completed some heights does not have
\* those heights in its pending set and makes no Source or Store call for
\* them; if they are its whole range it takes the fast path.
C7_IdempotentResume ==
    /\ \A h \in Heights :
          prevOutcome[h] = "completed" =>
              /\ h \notin Range(blockHeights)
              /\ callLog[h] = <<>>
              /\ h \notin dequeued
    /\ (/\ ~Idle /\ ret # "setupErr"
        /\ \A h \in fromHeight..toHeight : prevOutcome[h] = "completed")
       => dpc \in {"computed", "fastSend"} /\ NoWorkerStarted

C7_Witness ==
    /\ runNo = 2
    /\ prevOutcome[0] = "completed"
    /\ fromHeight = 0 /\ toHeight = 1
    /\ outcome[1] = "completed"
    /\ callLog[0] = <<>>

\* C8: if ctx is cancelled while heights remain to be enqueued, no height is
\* enqueued after that and the call returns the cancellation error.
C8_CancellableEnqueue ==
    (cancelled /\ numWorkers >= 1 /\ cancelAt.enq < Len(blockHeights))
    => /\ next - 1 = cancelAt.enq
       /\ Returned => ret = "ctxErr"

\* C9 (as stated): every height that was in the work queue or already
\* dequeued when ctx was cancelled has got its terminal event when the call
\* returns.
C9_Original ==
    (Returned /\ cancelled /\ numWorkers >= 1)
    => \A k \in 1..cancelAt.enq : TerminalsOf(blockHeights[k]) = 1

\* C9 (amended): every height a worker has dequeued has got exactly one
\* terminal event when the call returns, whether or not ctx was cancelled
\* meanwhile.
C9_DequeuedDrain ==
    Returned => \A h \in dequeued : TerminalsOf(h) = 1

C9_Witness ==
    /\ Returned
    /\ cancelAt.enq = 2 /\ cancelAt.deq = 1
    /\ Len(jobs) = 1
    /\ \E h \in dequeued : TerminalsOf(h) = 1

\* C10: if ctx is cancelled when workers have dequeued some but not all of
\* the pending heights, the call returns the cancellation error.
C10_ScenarioDReturn ==
    (Returned /\ cancelled /\ cancelAt.deq >= 1 /\ cancelAt.deq < Len(blockHeights))
    => ret = "ctxErr"

\* C11: once ctx is cancelled, no worker dequeues a height and starts its
\* pipeline: the heights dequeued are those dequeued before the signal.
C11_NoNewWork ==
    (cancelled /\ numWorkers >= 1) => Cardinality(dequeued) = cancelAt.deq

\* C12 is a liveness claim: it is checked under SpecLive, the behaviours of
\* Next with a pool of one worker that meet the claim's provisos. Every Source
\* and Store call of a running pipeline returns (weak fairness of the worker's
\* pipeline steps), the observer keeps receiving (weak fairness of Receive),
\* and a send on wp.progress that is possible again and again completes
\* (strong fairness of Send: the Go runtime serves the senders blocked on a
\* channel in arrival order).
PipelineStep(w) ==
    \E ok \in BOOLEAN :
        \/ GetBlockHashByHeight(w, ok)
        \/ MarkProcessing(w, ok)
        \/ \E n \in 0..MaxTx : GetBlockWithTransactions(w, ok, n)
        \/ InsertBlock(w, ok)
        \/ InsertTransaction(w, ok)
        \/ MarkFailed(w, ok)
        \/ MarkCompleted(w, ok)

Fairness ==
    /\ \A w \in Workers : WF_vars(PipelineStep(w)) /\ SF_vars(Send(w))
    /\ WF_vars(Receive)

InitLive ==
    /\ Init
    /\ numWorkers = 1

SpecLive == InitLive /\ [][Next]_vars /\ Fairness

\* C12: a height a worker has dequeued gets a terminal event, and never more
\* than one, whether or not ctx is cancelled while its pipeline runs.
C12_InFlightSurvives ==
    /\ \A h \in Heights : (h \in dequeued) ~> (TerminalsOf(h) = 1)
    /\ [](\A h \in Heights : TerminalsOf(h) <= 1)

\* ctx was cancelled while a dequeued height had no terminal event yet, and
\* the height has got its terminal event since.
C12_Witness ==
    /\ cancelled
    /\ cancelAt.deq = 1 /\ cancelAt.term = 0
    /\ \E h \in dequeued : TerminalsOf(h) = 1

\* C13: a failing pipeline leaves its worker at the head of its loop, with
\* the "failed" event to send; a worker returns only when ctx is cancelled or
\* jobs is closed and empty; and a call without cancellation and without
\* setup error returns nil with every pending height dequeued, whatever the
\* outcomes of the heights.
C13_FailureIsolation ==
    /\ \A w \in Workers :
          (outbox[w] # <<>> /\ Head(outbox[w]).status = "failed") => wpc[w] = "pull"
    /\ \A w \in Workers :
          (wpc[w] = "done" /\ ~cancelled) => (jobsClosed /\ jobs = <<>>)
    /\ (Returned /\ ~cancelled /\ ret # "setupErr")
       => /\ ret = "nil"
          /\ numWorkers >= 1 => dequeued = Range(blockHeights)

\* One worker, two pending heights, both failed: the worker went on to the
\* second height after the first failed, and the call returned nil.
C13_Witness ==
    /\ Returned /\ ~cancelled /\ ret = "nil"
    /\ numWorkers = 1
    /\ Len(blockHeights) = 2
    /\ \A h \in Range(blockHeights) : outcome[h] = "failed" /\ Count(h, "failed") = 1

\* C14: a call whose GetProcessedBlocks query failed has returned the error
\* with no pending set, no worker started, no height enqueued or dequeued, no
\* event sent or waiting to be sent, no Source or Store call made and the
\* status table as it was.
C14_SetupError ==
    ret = "setupErr"
    => /\ Returned
       /\ blockHeights = <<>>
       /\ NoWorkerStarted
       /\ jobs = <<>> /\ next = 1 /\ dequeued = {}
       /\ AllSent = {} /\ outbox = NoOutbox /\ progress = <<>>
       /\ NoCallsMade
       /\ ps = psBefore

\* The query failed on a range that has heights to process.
C14_Witness ==
    /\ ret = "setupErr"
    /\ Returned
    /\ PendingNow # {}

\* C15: a call on a pool of no workers with heights to process does not
\* return nil.
C15_PoolSizeChecked ==
    (Returned /\ numWorkers <= 0 /\ Len(blockHeights) > 0) => ret # "nil"

\* The calls of this run for height h, by name and by result.
Called(h, name) == \E k \in 1..Len(callLog[h]) : callLog[h][k][1] = name
CallFailed(h, name) ==
    \E k \in 1..Len(callLog[h]) : callLog[h][k][1] = name /\ ~callLog[h][k][3]
CallSucceeded(h, name) ==
    \E k \in 1..Len(callLog[h]) : callLog[h][k][1] = name /\ callLog[h][k][3]
\* The "failed" events of h: those sent and the one its worker is sending.
FailedEventsOf(h) ==
    {sentLog[h][k] : k \in {j \in 1..Len(sentLog[h]) : sentLog[h][j].status = "failed"}}
PendingFailed(h) ==
    {w \in Workers : /\ outbox[w] # <<>>
                     /\ Head(outbox[w]).height = h
                     /\ Head(outbox[w]).status = "failed"}
FailedEmitted(h) == Count(h, "failed") + Cardinality(PendingFailed(h))

\* C16 (as stated): a height whose MarkBlockCompleted call failed keeps the
\* status processing, gets no "completed" event and gets no "failed" event.
C16_Original ==
    \A h \in Heights :
        CallFailed(h, "MarkBlockCompleted")
        => /\ ps[h].state = "processing"
           /\ Count(h, "completed") = 0
           /\ Count(h, "failed") = 0

\* C16 (amended): a height whose MarkBlockCompleted call failed keeps the
\* status processing, has no MarkBlockFailed call and no "completed" event, and
\* gets exactly one "failed" event, which carries the error of that call and
\* has been sent when the call returns.
C16_MarkCompletedFailure ==
    \A h \in Heights :
        CallFailed(h, "MarkBlockCompleted")
        => /\ ps[h].state = "processing"
           /\ ~Called(h, "MarkBlockFailed")
           /\ Count(h, "completed") = 0
           /\ FailedEmitted(h) = 1
           /\ \A e \in FailedEventsOf(h) : e.err = "markCompleted"
           /\ Returned => Count(h, "failed") = 1

\* A block with a transaction was stored, MarkBlockCompleted failed, and the
\* call returned.
C16_Witness ==
    /\ Returned
    /\ \E h \in Heights :
          /\ CallFailed(h, "MarkBlockCompleted")
          /\ CallSucceeded(h, "InsertTransaction")
          /\ Count(h, "failed") = 1

\* The "processing_transactions" events sent for h, in the order sent, and
\* the number of InsertTransaction calls made for h.
HeartbeatsOf(h) == SelectSeq(sentLog[h], LAMBDA e : e.status = "processing_transactions")
InsertTransactionCalls(h) ==
    Cardinality({k \in 1..Len(callLog[h]) : callLog[h][k][1] = "InsertTransaction"})

\* C17: when the "completed" event of a height with n transactions has been
\* sent, the events of the height are its "processing" event, then heartbeats
\* with txCount k for exactly the k in 1..n with k mod 100 = 0 or k = n, each
\* once and in increasing order, with one more, a debug event, at every
\* multiple of 1000, then the "completed" event with txCount n.
C17_Heartbeats ==
    \A h \in Heights :
        (outcome[h] = "completed" /\ Count(h, "completed") = 1)
        => LET n == InsertTransactionCalls(h)
               hb == HeartbeatsOf(h)
               At(k) == {j \in 1..Len(hb) : hb[j].txCount = k}
           IN  /\ \A j \in 1..Len(hb) : hb[j].txCount \in 1..n
               /\ \A k \in 1..n :
                     /\ Cardinality(At(k)) =
                           (IF k % 100 = 0 \/ k = n THEN 1 ELSE 0)
                           + (IF k % 1000 = 0 THEN 1 ELSE 0)
                     /\ Cardinality({j \in At(k) : hb[j].debug = "detail"}) =
                           (IF k % 1000 = 0 THEN 1 ELSE 0)
               /\ \A i \in 1..Len(hb) : \A j \in 1..Len(hb) :
                     i < j => hb[i].txCount <= hb[j].txCount
               /\ Len(sentLog[h]) = Len(hb) + 2
               /\ sentLog[h][1].status = "processing"
               /\ sentLog[h][Len(sentLog[h])].status = "completed"
               /\ sentLog[h][Len(sentLog[h])].txCount = n

\* Scenario B: a block of 250 transactions has sent heartbeats at 100, 200 and
\* 250 and then its "completed" event with txCount 250.
C17_Witness ==
    \E h \in Heights :
        /\ outcome[h] = "completed"
        /\ Count(h, "completed") = 1
        /\ InsertTransactionCalls(h) = 250
        /\ [j \in 1..Len(HeartbeatsOf(h)) |-> HeartbeatsOf(h)[j].txCount] = <<100, 200, 250>>
        /\ sentLog[h][Len(sentLog[h])].txCount = 250

\* C18 (as stated): a height whose GetBlockWithTransactions call failed has
\* no InsertBlock, InsertTransaction or MarkBlockCompleted call and no
\* "completed" event; once its pipeline has returned it has exactly one
\* "failed" event, with the error of the call, sent when the call returns,
\* and its status row is failed with that error message.
C18_Original ==
    \A h \in Heights :
        CallFailed(h, "GetBlockWithTransactions")
        => /\ ~Called(h, "InsertBlock")
           /\ ~Called(h, "InsertTransaction")
           /\ ~Called(h, "MarkBlockCompleted")
           /\ Count(h, "completed") = 0
           /\ \A e \in FailedEventsOf(h) : e.err = "fetch"
           /\ outcome[h] = "failed"
              => /\ FailedEmitted(h) = 1
                 /\ ps[h] = [state |-> "failed", err |-> "fetch"]
           /\ Returned => Count(h, "failed") = 1

\* C18 (amended): as above, but the status row is failed with the error
\* message if the MarkBlockFailed call succeeded, and is left at processing
\* if that call failed.
C18_FetchFailure ==
    \A h \in Heights :
        CallFailed(h, "GetBlockWithTransactions")
        => /\ ~Called(h, "InsertBlock")
           /\ ~Called(h, "InsertTransaction")
           /\ ~Called(h, "MarkBlockCompleted")
           /\ Count(h, "completed") = 0
           /\ \A e \in FailedEventsOf(h) : e.err = "fetch"
           /\ outcome[h] = "failed"
              => /\ FailedEmitted(h) = 1
                 /\ CallSucceeded(h, "MarkBlockFailed")
                    => ps[h] = [state |-> "failed", err |-> "fetch"]
                 /\ CallFailed(h, "MarkBlockFailed")
                    => ps[h] = [state |-> "processing", err |-> ""]
           /\ Returned => Count(h, "failed") = 1

\* The fetch of a height failed, MarkBlockFailed succeeded, and the call
\* returned after the "failed" event was sent.
C18_Witness ==
    /\ Returned
    /\ \E h \in Heights :
          /\ CallFailed(h, "GetBlockWithTransactions")
          /\ CallSucceeded(h, "MarkBlockFailed")
          /\ ps[h] = [state |-> "failed", err |-> "fetch"]
          /\ Count(h, "failed") = 1

\* C19: a height whose GetBlockHashByHeight call failed and whose
\* MarkBlockFailed call succeeded has no MarkBlockProcessing call, exactly
\* one "failed" event, and a status row failed with the error message,
\* whether or not it had a status row when the call started.
C19_HashFailureRecorded ==
    \A h \in Heights :
        (CallFailed(h, "GetBlockHashByHeight") /\ CallSucceeded(h, "MarkBlockFailed"))
        => /\ ~Called(h, "MarkBlockProcessing")
           /\ FailedEmitted(h) = 1
           /\ Returned => Count(h, "failed") = 1
           /\ ps[h] = [state |-> "failed", err |-> "hash"]

\* C20: a height whose MarkBlockProcessing call failed has had, in this call,
\* the GetBlockHashByHeight call and that call and no other, and its status
\* row is the one it had when the call started.
C20_MarkProcessingAbandons ==
    \A h \in Heights :
        CallFailed(h, "MarkBlockProcessing")
        => /\ callLog[h] = << <<"GetBlockHashByHeight", 0, TRUE>>,
                              <<"MarkBlockProcessing", 0, FALSE>> >>
           /\ ps[h] = psBefore[h]

\* A height an earlier run left failed: MarkBlockProcessing failed for it in
\* this run, its pipeline returned, and its row is still the failed one.
C20_Witness ==
    \E h \in Heights :
        /\ psBefore[h].state = "failed"
        /\ CallFailed(h, "MarkBlockProcessing")
        /\ outcome[h] = "failed"
        /\ ps[h].state = "failed"

\* The indices of the transactions of h in the transactions table.
StoredTxs(h) == {t[2] : t \in {x \in txs : x[1] = h}}
\* In the call log of h every InsertTransaction call follows a successful
\* InsertBlock call (the first transaction) or the successful call for the
\* transaction before it: the transactions are written in the order the
\* Source returned them, and none after a failed write.
InSourceOrder(h) ==
    \A p \in 1..Len(callLog[h]) :
        callLog[h][p][1] = "InsertTransaction"
        => /\ p > 1
           /\ callLog[h][p - 1] =
                 IF callLog[h][p][2] = 1
                   THEN <<"InsertBlock", 0, TRUE>>
                   ELSE <<"InsertTransaction", callLog[h][p][2] - 1, TRUE>>

\* C21 (as stated): when the pipeline of a height has returned, its
\* transactions were written in source order after a successful InsertBlock;
\* if the write of transaction i failed, the transactions stored are those
\* before i, the next and last call is MarkBlockFailed, there is no
\* MarkBlockCompleted call and no "completed" event, exactly one "failed"
\* event is emitted, and the status row is failed with the write's error.
C21_Original ==
    \A h \in Heights :
        outcome[h] # "none"
        => /\ InSourceOrder(h)
           /\ \A p \in 1..Len(callLog[h]) :
                 (callLog[h][p][1] = "InsertTransaction" /\ ~callLog[h][p][3])
                 => /\ Len(callLog[h]) = p + 1
                    /\ callLog[h][p + 1][1] = "MarkBlockFailed"
                    /\ StoredTxs(h) = 1..(callLog[h][p][2] - 1)
                    /\ Count(h, "completed") = 0
                    /\ FailedEmitted(h) = 1
                    /\ \A e \in FailedEventsOf(h) : e.err = "insertTx"
                    /\ ps[h] = [state |-> "failed", err |-> "insertTx"]

\* C21 (amended): as above, but the status row is failed with the write's
\* error if the MarkBlockFailed call succeeded and is left at processing if
\* that call failed.
C21_TransactionOrderAbort ==
    \A h \in Heights :
        outcome[h] # "none"
        => /\ InSourceOrder(h)
           /\ \A p \in 1..Len(callLog[h]) :
                 (callLog[h][p][1] = "InsertTransaction" /\ ~callLog[h][p][3])
                 => /\ Len(callLog[h]) = p + 1
                    /\ callLog[h][p + 1][1] = "MarkBlockFailed"
                    /\ StoredTxs(h) = 1..(callLog[h][p][2] - 1)
                    /\ Count(h, "completed") = 0
                    /\ FailedEmitted(h) = 1
                    /\ \A e \in FailedEventsOf(h) : e.err = "insertTx"
                    /\ ps[h] = IF callLog[h][p + 1][3]
                                 THEN [state |-> "failed", err |-> "insertTx"]
                                 ELSE [state |-> "processing", err |-> ""]

\* The write of the third transaction of a block failed: the first two are
\* stored, the height is marked failed and its "failed" event has been sent.
C21_Witness ==
    \E h \in Heights :
        /\ outcome[h] = "failed"
        /\ CallFailed(h, "InsertTransaction")
        /\ StoredTxs(h) = {1, 2}
        /\ ps[h] = [state |-> "failed", err |-> "insertTx"]
        /\ Count(h, "failed") = 1

\* The "completed" events of h that are on the stream: sent in this call, or
\* in the buffer of wp.progress.
CompletedEventsOf(h) ==
    {sentLog[h][k] : k \in {j \in 1..Len(sentLog[h]) : sentLog[h][j].status = "completed"}}
    \cup {progress[k] : k \in {j \in 1..Len(progress) :
                                  progress[j].status = "completed" /\ progress[j].height = h}}

\* C22: whenever a "completed" event of a height is on the stream, the calls
\* made for the height in this call are the hash lookup, MarkBlockProcessing,
\* the fetch of n transactions, InsertBlock, InsertTransaction for 1..n and
\* MarkBlockCompleted, all successful; the status row of the height is
\* completed; and the event's txCount is n.
C22_CompletedMeansStored ==
    \A h \in Heights :
        \A e \in CompletedEventsOf(h) :
            /\ ps[h].state = "completed"
            /\ \A p \in 1..Len(callLog[h]) : callLog[h][p][3]
            /\ Len(callLog[h]) = e.txCount + 5
            /\ callLog[h][3] = <<"GetBlockWithTransactions", e.txCount, TRUE>>
            /\ callLog[h][4] = <<"InsertBlock", 0, TRUE>>
            /\ \A k \in 1..e.txCount : callLog[h][4 + k] = <<"InsertTransaction", k, TRUE>>
            /\ callLog[h][Len(callLog[h])] = <<"MarkBlockCompleted", 0, TRUE>>
            /\ h \in blocks
            /\ \A k \in 1..e.txCount : <<h, k>> \in txs

\* The "completed" event of a block with a transaction is in the buffer of
\* wp.progress, not yet received.
C22_Witness ==
    \E k \in 1..Len(progress) :
        /\ progress[k].status = "completed"
        /\ progress[k].txCount = MaxTx
        /\ ps[progress[k].height].state = "completed"

\* The heights of the range that were not completed when the call started,
\* and the heights the dispatcher has put on jobs: those still in the queue
\* and those the workers have taken.
PendingAtStart == {h \in fromHeight..toHeight : psBefore[h].state # "completed"}
Enqueued == dequeued \cup Range(jobs)

\* C23: the queue holds ascending heights, all above the heights already
\* taken from it, no height twice; the heights enqueued are pending heights
\* and form a prefix of the pending set in ascending order; a call that
\* returns without cancellation and without setup error has enqueued exactly
\* the pending set.
C23_DispatchOrder ==
    /\ Ascending(jobs)
    /\ \A d \in dequeued : \A j \in Range(jobs) : d < j
    /\ Enqueued \subseteq PendingAtStart
    /\ \A h \in Enqueued : \A g \in PendingAtStart : g < h => g \in Enqueued
    /\ Cardinality(Enqueued) = next - 1
    /\ (Returned /\ ~cancelled /\ ret # "setupErr") => Enqueued = PendingAtStart

\* Scenario A at the size of the model: the range is all heights, the first
\* was completed before, and the call has enqueued the last one only.
C23_Witness ==
    /\ Returned /\ ~cancelled
    /\ fromHeight = 0 /\ toHeight = MaxHeight
    /\ psBefore[0].state = "completed"
    /\ Enqueued = {MaxHeight}
    /\ dequeued = {MaxHeight}

\* The number of calls of one name in the call log of h, the workers that
\* are inside the pipeline of h, and the "processing" events of h that
\* workers are about to send.
CallsOf(h, name) ==
    Cardinality({p \in 1..Len(callLog[h]) : callLog[h][p][1] = name})
InPipeline(h) ==
    {w \in Workers : wh[w] = h /\ wpc[w] \notin {"off", "pull", "done"}}
PendingProcessing(h) ==
    {w \in Workers : /\ outbox[w] # <<>>
                     /\ Head(outbox[w]).height = h
                     /\ Head(outbox[w]).status = "processing"}

\* C24: in one call the pipeline of a height is started at most once: a
\* dequeued height is not in the queue again, at most one worker is inside
\* its pipeline, it gets at most one "processing" event, at most one
\* GetBlockHashByHeight and one MarkBlockProcessing call and at most one
\* terminal event; and once its pipeline has returned, with an error or
\* without, no worker is inside its pipeline again.
C24_NoDoubleProcessing ==
    \A h \in Heights :
        /\ h \in dequeued => h \notin Range(jobs)
        /\ Cardinality(InPipeline(h)) <= 1
        /\ Count(h, "processing") + Cardinality(PendingProcessing(h)) <= 1
        /\ CallsOf(h, "GetBlockHashByHeight") <= 1
        /\ CallsOf(h, "MarkBlockProcessing") <= 1
        /\ TerminalsOf(h) <= 1
        /\ outcome[h] # "none" => InPipeline(h) = {}

\* Two workers have each processed one of two heights, one of which failed,
\* and the call has returned.
C24_Witness ==
    /\ Returned
    /\ numWorkers = 2
    /\ dequeued = {0, 1}
    /\ outcome[0] = "failed" /\ outcome[1] = "completed"
    /\ CallsOf(0, "GetBlockHashByHeight") = 1 /\ CallsOf(1, "GetBlockHashByHeight") = 1

\* The changes of state the ledger allows.
AllowedChanges ==
    {<<"none", "processing">>, <<"processing", "completed">>,
     <<"processing", "failed">>, <<"failed", "processing">>}
LastCall(h) == callLog[h][Len(callLog[h])][1]

\* C25: the status table has one row per height at most; every step that
\* changes the state of a height makes an allowed change, failed ->
\* processing only for a height that was failed when the call started; a
\* step leaves the row of a completed height alone and makes no
\* MarkBlockProcessing or MarkBlockFailed call for it.
C25_StatusLedger ==
    /\ [](ps \in ProcessingStatusTable)
    /\ [][\A h \in Heights :
            /\ ps'[h].state # ps[h].state
               => /\ <<ps[h].state, ps'[h].state>> \in AllowedChanges
                  /\ ps[h].state = "failed" => psBefore[h].state = "failed"
            /\ ps[h].state = "completed"
               => /\ ps'[h] = ps[h]
                  /\ (callLog'[h] # callLog[h] /\ callLog'[h] # <<>>)
                     => LastCall(h)' \notin {"MarkBlockProcessing", "MarkBlockFailed"}
         ]_vars

\* A height an earlier run left failed has re-entered processing, and a
\* height an earlier run completed is in the range of this run.
C25_Witness ==
    /\ runNo = MaxRuns
    /\ psBefore[0].state = "failed" /\ ps[0].state = "processing"
    /\ psBefore[1].state = "completed"
    /\ fromHeight = 0 /\ toHeight = 1

\* C26: the buffer of wp.progress never holds more than 2 x numWorkers
\* events. It changes only by a send, which appends the event the sender has
\* to send next, or by a receive, which removes its head: no event is dropped
\* or overwritten. While the buffer is full no send completes, and a
\* goroutine that has an event to send takes no other step before it is sent.
C26_BoundedStream ==
    /\ [](Len(progress) <= 2 * numWorkers)
    /\ [][\/ progress' = progress
          \/ /\ progress # <<>>
             /\ progress' = Tail(progress)
             /\ sentLog' = sentLog /\ outbox' = outbox
          \/ \E g \in {Dispatcher} \cup Workers :
                /\ outbox[g] # <<>>
                /\ progress' = Append(progress, Head(outbox[g]))
                /\ outbox' = [outbox EXCEPT ![g] = Tail(@)]
         ]_vars
    /\ [][(numWorkers >= 1 /\ Len(progress) = 2 * numWorkers)
          => (sentLog' = sentLog /\ Len(progress') <= Len(progress))
         ]_vars
    /\ [][\A w \in Workers :
             (outbox[w] # <<>> /\ outbox'[w] = outbox[w])
             => (wpc'[w] = wpc[w] /\ wh'[w] = wh[w] /\ wi'[w] = wi[w])
         ]_vars

\* The buffer is full and a worker has an event to send: it is blocked until
\* the observer receives.
C26_Witness ==
    /\ numWorkers >= 1
    /\ Len(progress) = 2 * numWorkers
    /\ \E w \in Workers : outbox[w] # <<>>

IsTerminalStatus(s) == s \in {"completed", "failed"}

\* C27: the events sent for a dequeued height are, in this order, one
\* "processing" event, then "processing_transactions" events with
\* non-decreasing txCount, then at most one terminal event, "completed" or
\* "failed", after which nothing is sent for the height; when the call has
\* returned the terminal event is there. A height that was not dequeued has
\* no pipeline event.
C27_EventShape ==
    \A h \in Heights :
        LET L == sentLog[h] IN
        IF h \in dequeued
          THEN /\ L # <<>> => L[1].status = "processing"
               /\ \A k \in 2..Len(L) :
                     L[k].status \in {"processing_transactions", "completed", "failed"}
               /\ \A k \in 1..(Len(L) - 1) : ~IsTerminalStatus(L[k].status)
               /\ \A i \in 1..Len(L) : \A j \in 1..Len(L) :
                     (/\ i < j
                      /\ L[i].status = "processing_transactions"
                      /\ L[j].status = "processing_transactions")
                     => L[i].txCount <= L[j].txCount
               /\ Returned => (Len(L) >= 2 /\ IsTerminalStatus(L[Len(L)].status))
          ELSE \A k \in 1..Len(L) : L[k].status = "All blocks already processed"

\* A height has sent its "processing" event, two heartbeats and then its
\* "failed" event.
C27_Witness ==
    \E h \in Heights :
        /\ Len(sentLog[h]) = 4
        /\ Len(HeartbeatsOf(h)) = 2
        /\ sentLog[h][4].status = "failed"

\* C28 is a liveness claim about calls in which ctx is never cancelled: it is
\* checked under SpecTerminates, the behaviours of Next without the
\* cancellation steps, for a pool of at least one worker, that meet the
\* claim's provisos. The dispatcher and the workers keep running (weak
\* fairness of their steps), every Source and Store call returns (weak
\* fairness of the pipeline steps), the observer keeps receiving (weak
\* fairness of Receive), and a send that is possible again and again
\* completes (strong fairness of Send).
DispatcherStep ==
    \/ FastPath
    \/ FastClose
    \/ Spawn
    \/ Enqueue
    \/ CloseJobs
    \/ WaitCloseReturn

WorkerLoopStep(w) ==
    \/ WorkerDequeue(w)
    \/ WorkerJobsClosed(w)

InitTerminates ==
    /\ Init
    /\ numWorkers >= 1

NextUncancelled ==
    \/ \E from \in Heights, to \in Heights, ok \in BOOLEAN :
          callsOnPool = 0 /\ Start(from, to, ok)
    \/ DispatcherStep
    \/ \E w \in Workers : WorkerLoopStep(w)
    \/ \E w \in Workers : PipelineStep(w)
    \/ \E g \in {Dispatcher} \cup Workers : Send(g)
    \/ Receive

FairnessUncancelled ==
    /\ WF_vars(DispatcherStep)
    /\ SF_vars(Send(Dispatcher))
    /\ \A w \in Workers :
          /\ WF_vars(WorkerLoopStep(w))
          /\ WF_vars(PipelineStep(w))
          /\ SF_vars(Send(w))
    /\ WF_vars(Receive)

SpecTerminates == InitTerminates /\ [][NextUncancelled]_vars /\ FairnessUncancelled

\* The call has returned nil with the stream closed, the work queue empty and
\* every worker that was started returned.
Terminated ==
    /\ Returned
    /\ ret = "nil"
    /\ progressClosed
    /\ jobs = <<>>
    /\ \A w \in Workers : wpc[w] \in {"off", "done"}
    /\ outbox = NoOutbox

\* C28: once the pending set of a call has been computed, the call
\* terminates: it returns nil with the stream closed, the queue empty and
\* every worker returned.
C28_Terminates ==
    (dpc = "computed") ~> Terminated

\* Two workers, two pending heights, and the call has terminated with both
\* heights dequeued.
C28_Witness ==
    /\ Terminated
    /\ numWorkers = MaxWorkers
    /\ dequeued = Heights

\* The composed program of runScraper: ctx is context.Background(), never
\* cancelled; ProcessBlockRange runs in a goroutine and RunProgressUI, the
\* observer, receives from wp.progress until it returns. (ObserverCtxDone, the
\* observer's third way out, takes a cancelled ctx and is in no step of it.)
NextComposed ==
    \/ NextUncancelled
    \/ ObserverClosed

SpecComposed == Init /\ [][NextComposed]_vars

\* C29: when ProcessBlockRange has returned and the observer is still
\* waiting on the drained stream, the stream is closed or ctx is cancelled,
\* so that the observer's next step is to return.
C29_ObserverStops ==
    (Returned /\ numWorkers >= 1 /\ observer = "waiting" /\ progress = <<>>)
    => (progressClosed \/ cancelled)

\* A caller that calls ProcessBlockRange again and again on one WorkerPool,
\* each call after the one before it has returned; ctx is never cancelled.
NextReuse ==
    \/ \E from \in Heights, to \in Heights, ok \in BOOLEAN :
          runNo < MaxRuns /\ Start(from, to, ok)
    \/ DispatcherStep
    \/ \E w \in Workers : WorkerLoopStep(w)
    \/ \E w \in Workers : PipelineStep(w)
    \/ \E g \in {Dispatcher} \cup Workers : Send(g)
    \/ \E g \in {Dispatcher} \cup Workers : SendOnClosed(g)
    \/ CloseOfClosed
    \/ Receive

SpecReuse == Init /\ [][NextReuse]_vars

\* C30: over the calls made on one WorkerPool no goroutine is at a send on
\* wp.progress after it has been closed, and no send on the closed channel
\* and no second close of it has made the process panic.
C30_PoolReuse ==
    /\ progressClosed => outbox = NoOutbox
    /\ ~panicked

====
